---- MODULE Spec2Model ----
(***************************************************************************)
(* Model of generate_dashboard.py: the daily run of the US market          *)
(* dashboard, centred on the 52-week-high tracker of get_stock_data and    *)
(* the store file data/52week_highs.json it keeps across runs.             *)
(*                                                                         *)
(* Prices are whole numbers.  The code's test close >= yr_high * 0.99 is   *)
(* modelled exactly as 100 * close >= 99 * yr_high; binary floating-point  *)
(* rounding at the boundary is outside the model.                          *)
(***************************************************************************)
EXTENDS Integers, Sequences, FiniteSets, TLC

\* ------------------------------------------------------------------------
\* Program constants
\* ------------------------------------------------------------------------

\* candidates = sorted(stocks, ...)[:200]
CandidateLimit == 200

\* for i in range(0, len(check_tickers), 50)
HighBatchSize == 50

\* ------------------------------------------------------------------------
\* Bounds of the model
\* ------------------------------------------------------------------------

\* size of the ticker universe all_tickers (tickers are 1..NumTickers, in
\* the order of all_tickers)
NumTickers == 202

\* runs of main() in one behaviour, each with freely chosen data
MaxRuns == 1

\* 1y-history requests that may fail in these runs
MaxFetchFailures == 1

\* ------------------------------------------------------------------------
\* Values
\* ------------------------------------------------------------------------

\* a Python/JSON scalar: a number, None (or a missing key), NaN, a string
Num(v) == [tag |-> "num", val |-> v]
None == [tag |-> "none", val |-> 0]
NaN == [tag |-> "nan", val |-> 0]
Str == [tag |-> "str", val |-> 0]

IsNum(x) == x.tag = "num"

\* pd.isna(x)
IsNa(x) == x.tag \in {"none", "nan"}

\* the empty dict
EmptyDict == [t \in {} |-> None]

\* d.get(k, default)
Get(d, k, default) == IF k \in DOMAIN d THEN d[k] ELSE default

Tickers == 1..NumTickers

\* the first ticker of all_tickers gets a freely chosen quote in every run;
\* the others share one fixed quote and differ only in whether they have
\* data
Probes == {1}

Max(a, b) == IF a >= b THEN a ELSE b
Min(a, b) == IF a <= b THEN a ELSE b

\* ------------------------------------------------------------------------
\* State
\* ------------------------------------------------------------------------

VARIABLES
    file,           \* data/52week_highs.json on disk
    market,         \* what the data source reports during the current run
    pc,             \* position of the process in main()
    stored_highs,   \* get_stock_data's local stored_highs
    new_highs,      \* get_stock_data's local new_highs
    check_tickers,  \* get_stock_data's local check_tickers
    i,              \* offset of the next batch in check_tickers
    result,         \* new_highs_top10 as returned by the tracker of this run
    gainers,        \* main's local gainers (tickers, in rank order)
    unusual_vol,    \* main's local unusual_vol
    etf_data,       \* get_etf_data's today_data, kept until the next stage
    etf_gainers,    \* main's local etf_gainers
    etf_losers,     \* main's local etf_losers
    etf_active,     \* main's local etf_active
    runs,           \* runs started so far
    failures,       \* failed 1y-history requests so far
    run,            \* bookkeeping about the current run
    last,           \* bookkeeping about the run before, kept for a run that
                    \* repeats it
    bd,             \* position of the process in batch_download
    ticker_list,    \* batch_download's argument
    feed,           \* what the data source has of the first ticker
    batch_i,        \* batch_download's loop variable i
    attempt,        \* safe_download's loop variable
    data_frame,     \* safe_download's data, as returned to batch_download
    all_data,       \* batch_download's local all_data
    tries,          \* the attempts made on each batch, by its offset
    pauses,         \* calls of time.sleep(2) so far
    rs,             \* position of the process in generate_html
    inputs,         \* generate_html's nine list arguments, by name
    body,           \* the content of each table's tbody in the page
    racers,         \* two overlapping runs of the tracker: each one's
                    \* position and locals
    race            \* bookkeeping about the saves of the two

\* the locals of the 52-week-high section of get_stock_data
tracker == <<stored_highs, new_highs, check_tickers, i>>

\* the rankings of the stocks
ranked == <<gainers, unusual_vol>>

\* the state of the stages that follow get_stock_data
later == <<etf_data, etf_gainers, etf_losers, etf_active>>

\* the state of main()
main == <<file, market, pc, tracker, result, ranked, later, runs, failures,
          run, last>>

\* the state of a call of batch_download
fetcher ==
    <<bd, ticker_list, feed, batch_i, attempt, data_frame, all_data, tries,
      pauses>>

\* the state of a call of generate_html
renderer == <<rs, inputs, body>>

\* the state of two overlapping runs
racing == <<racers, race>>

vars == <<main, fetcher, renderer, racing>>

\* ------------------------------------------------------------------------
\* The data source
\* ------------------------------------------------------------------------

\* one ticker's data of the day: today's close, open and volume
\* (period="1d"), the maximum of its High column over period="1y" and the
\* mean of its Volume column over period="1mo"
Quote(c, o, h, v, a) ==
    [close |-> c, open |-> o, high |-> h, volume |-> v, avg |-> a]

NoQuote == Quote(None, None, None, None, None)

\* the quotes a probe ticker may have
ProbeQuotes ==
    { NoQuote,
      \* a zero close, three times the usual volume
      Quote(Num(0), Num(0), None, Num(300), Num(100)),
      \* a NaN close, three times the usual volume
      Quote(NaN, Num(128), Num(161), Num(300), Num(100)),
      \* +25%, within 1% of the high, three times the usual volume
      Quote(Num(160), Num(128), Num(161), Num(300), Num(100)),
      \* +25%, far below the high, the usual volume
      Quote(Num(150), Num(120), Num(170), Num(100), Num(100)),
      \* +25%, High column all NaN, 1.5 times the usual volume
      Quote(Num(160), Num(128), NaN, Num(150), Num(100)),
      \* 0%, above the high, no 1mo column
      Quote(Num(162), Num(162), Num(161), Num(300), None),
      \* 0%, no 1y column, Volume column of 1mo all NaN
      Quote(Num(170), Num(170), None, Num(100), NaN) }

\* the quote every other ticker has on a day it has data: +20%, at its
\* high, twice the usual volume
FillerQuote == Quote(Num(150), Num(125), Num(150), Num(200), Num(100))

\* how many of the other tickers have data on a day
FillerCounts ==
    { 0, HighBatchSize, CandidateLimit, NumTickers - Cardinality(Probes) }

Markets == [quote : [Probes -> ProbeQuotes], fillers : FillerCounts]

QuoteOf(t) ==
    IF t \in Probes THEN market.quote[t]
    ELSE IF t - Cardinality(Probes) <= market.fillers THEN FillerQuote
    ELSE NoQuote

\* today_data.get("Close", {}).get(ticker)
today_close(t) == QuoteOf(t).close

\* today_data.get("Open", {}).get(ticker)
today_open(t) == QuoteOf(t).open

\* hist["High"][ticker].max() of the 1y download (None: no such column)
yr_high(t) == QuoteOf(t).high

\* today_data.get("Volume", {}).get(ticker)
today_volume(t) == QuoteOf(t).volume

\* vol_data.get(ticker, 0), with None for the 0 of a missing key
avg_vol(t) == QuoteOf(t).avg

\* ------------------------------------------------------------------------
\* Snapshots and candidates
\* ------------------------------------------------------------------------

\* a slip: the test close == 0 left out
ValidClose_ZeroKept(c) == IsNum(c)

\* if close is None or pd.isna(close) or close == 0: continue
ValidClose(c) == IsNum(c) /\ c.val # 0

\* ((close - open_price) / open_price * 100) if open_price and
\* open_price > 0 else 0; the quotes of the model divide evenly
ChangePct(c, o) ==
    IF IsNum(o) /\ o.val > 0 THEN ((c.val - o.val) * 100) \div o.val ELSE 0

change_pct(t) == ChangePct(today_close(t), today_open(t))

\* all_tickers, without duplicates, in order
all_tickers == [n \in 1..NumTickers |-> n]

\* the tickers of the list stocks, in the order they were appended
stocks == SelectSeq(all_tickers, LAMBDA t : ValidClose(today_close(t)))

SetMax(S) == CHOOSE x \in S : \A y \in S : y <= x

RECURSIVE SortByKeys(_, _)
SortByKeys(seq, keys) ==
    IF keys = {} THEN << >>
    ELSE LET k == SetMax(keys)
         IN  SelectSeq(seq, LAMBDA t : change_pct(t) = k)
                 \o SortByKeys(seq, keys \ {k})

\* sorted(seq, key=lambda x: x["change_pct"], reverse=True): stable, so
\* equal keys keep the order they have in seq
SortedByChange(seq) ==
    SortByKeys(seq, { change_pct(seq[n]) : n \in 1..Len(seq) })

Prefix(seq, n) == SubSeq(seq, 1, Min(n, Len(seq)))

\* (volume / avg_vol) if avg_vol and avg_vol > 0 else 0, in hundredths;
\* the quotes of the model divide evenly, and a ticker with a close has
\* a volume
VolRatio(v, a) ==
    IF IsNum(v) /\ IsNum(a) /\ a.val > 0 THEN (v.val * 100) \div a.val ELSE 0

vol_ratio(t) == VolRatio(today_volume(t), avg_vol(t))

SetMin(S) == CHOOSE x \in S : \A y \in S : x <= y

\* sorted(seq, key=..., reverse=True) for the keys given by the function
\* key: stable
RECURSIVE SortDesc(_, _, _)
SortDesc(seq, key, keys) ==
    IF keys = {} THEN << >>
    ELSE LET k == SetMax(keys)
         IN  SelectSeq(seq, LAMBDA t : key[t] = k)
                 \o SortDesc(seq, key, keys \ {k})

SortedDesc(seq, key) == SortDesc(seq, key, { key[seq[n]] : n \in 1..Len(seq) })

\* sorted(seq, key=...): stable
RECURSIVE SortAsc(_, _, _)
SortAsc(seq, key, keys) ==
    IF keys = {} THEN << >>
    ELSE LET k == SetMin(keys)
         IN  SelectSeq(seq, LAMBDA t : key[t] = k)
                 \o SortAsc(seq, key, keys \ {k})

SortedAsc(seq, key) == SortAsc(seq, key, { key[seq[n]] : n \in 1..Len(seq) })

\* the slice [:10] of the rankings
TopLimit == 10

\* gainers = sorted(stocks, key=lambda x: x["change_pct"], reverse=True)[:10]
Gainers == Prefix(SortedByChange(stocks), TopLimit)

\* vol_ratio >= 1.5
UnusualRatio == 150

\* unusual_vol = sorted([s for s in stocks if s["vol_ratio"] >= 1.5],
\*                      key=lambda x: x["vol_ratio"], reverse=True)[:10]
UnusualVol ==
    LET ratio == [t \in Tickers |-> vol_ratio(t)]
        high == SelectSeq(stocks, LAMBDA t : ratio[t] >= UnusualRatio)
    IN  Prefix(SortedDesc(high, ratio), TopLimit)

\* a slip: reverse=True left out
Candidates_Ascending ==
    LET asc == SortedByChange(stocks)
    IN  Prefix([n \in 1..Len(asc) |-> asc[Len(asc) + 1 - n]], CandidateLimit)

\* a slip: the slice [:200] left out
Candidates_Uncut == SortedByChange(stocks)

\* [s["ticker"] for s in sorted(stocks, ...)[:200]]
Candidates == Prefix(SortedByChange(stocks), CandidateLimit)

\* ------------------------------------------------------------------------
\* The store file and the JSON in it
\* ------------------------------------------------------------------------

\* a JSON document: an object (kind "map", its members in map) or some
\* other value (kind "list")
JsonMap(d) == [kind |-> "map", map |-> d]
JsonList == [kind |-> "list", map |-> EmptyDict]

\* the file: absent, there but not openable, there with text that is no
\* JSON (an empty or cut-off file included), or there with a JSON document
FileAbsent == [kind |-> "absent", map |-> EmptyDict]
FileUnreadable == [kind |-> "unreadable", map |-> EmptyDict]
FileMalformed == [kind |-> "malformed", map |-> EmptyDict]

\* a slip: the list of events is handed to save_json; with no event the
\* file then holds []
Dump_Events(data) == JsonList

\* json.dump(data, f): the file then holds the document
Dump(data) == data

\* open(high_52w_file, "r") raises something other than FileNotFoundError
OpenRaises(f) == f.kind = "unreadable"

\* try: stored_highs = json.load(f)
\* except (FileNotFoundError, json.JSONDecodeError): stored_highs = {}
LoadHighs(f) ==
    IF f.kind \in {"absent", "malformed"} THEN JsonMap(EmptyDict) ELSE f

\* the store files a behaviour may start with
InitFiles ==
    { FileAbsent, FileUnreadable, FileMalformed, JsonList,
      JsonMap([t \in {1} |-> Str]),
      JsonMap([t \in {1} |-> Num(170)]),
      JsonMap([t \in {1, NumTickers} |-> Num(150)]) }

\* ------------------------------------------------------------------------
\* Evaluation of one batch of candidates
\* ------------------------------------------------------------------------

\* batch = check_tickers[i:i + 50]
Batch(n) == SubSeq(check_tickers, n + 1, Min(n + HighBatchSize, Len(check_tickers)))

SeqRange(seq) == { seq[n] : n \in 1..Len(seq) }

\* if not hist.empty and "High" in hist.columns
HasHigh(batch) == \E t \in SeqRange(batch) : yr_high(t) # None

\* if close and not pd.isna(close), with close = ....get(ticker, 0)
TruthyClose(c) == IsNum(c) /\ c.val # 0

\* the ticker gets as far as prev_high = stored_highs.get(ticker, 0):
\* a batch of one tests the close only; a longer batch needs the ticker's
\* High column (else KeyError) and tests not pd.isna(yr_high) too
Reaches(t, single) ==
    IF single THEN TruthyClose(today_close(t))
    ELSE /\ yr_high(t) # None
         /\ TruthyClose(today_close(t))
         /\ ~IsNa(yr_high(t))

\* close >= yr_high * 0.99 (False when yr_high is NaN)
WithinBand(c, h) == IsNum(h) /\ 100 * c.val >= 99 * h.val

\* stock_info = next((s for s in stocks if s["ticker"] == ticker), None)
\* is not None; listed is the set of tickers in stocks
HasStockInfo(t, listed) == t \in listed

\* new_highs.append({**stock_info, "prev_high": ..., "beat_pct": ...})
Emits(t, single, listed) ==
    /\ Reaches(t, single)
    /\ WithinBand(today_close(t), yr_high(t))
    /\ HasStockInfo(t, listed)

\* ((close - yr_high) / yr_high * 100) if yr_high > 0 else 0, as the
\* fraction num / den with den > 0
Beat(c, h) ==
    IF h > 0 THEN [num |-> (c - h) * 100, den |-> h]
    ELSE [num |-> 0, den |-> 1]

\* a slip: prev_high, the stored value, is put into the entry
Event_StoredHigh(t) ==
    [ticker |-> t, close |-> today_close(t).val,
     prev_high |-> Get(stored_highs.map, t, Num(0)).val,
     beat_pct |-> Beat(today_close(t).val, yr_high(t).val)]

\* the appended entry: {**stock_info, "prev_high": float(yr_high),
\* "beat_pct": ...}; an entry is appended only for a yr_high that is a
\* number, so the 0 a batch of one puts for a NaN yr_high never shows
Event(t) ==
    [ticker |-> t, close |-> today_close(t).val,
     prev_high |-> yr_high(t).val,
     beat_pct |-> Beat(today_close(t).val, yr_high(t).val)]

\* max(float(close), prev_high) raises TypeError unless prev_high is a number
MaxRaises(prev) == ~IsNum(prev)

\* stored_highs[ticker] = max(float(close), prev_high) is carried out
Updates(d, t, single) ==
    /\ Reaches(t, single)
    /\ ~MaxRaises(Get(d, t, Num(0)))

\* a slip: the close is added to the stored value
NewHigh_Added(d, t) == Num(today_close(t).val + Get(d, t, Num(0)).val)

\* max(float(close), prev_high) with prev_high = stored_highs.get(ticker, 0)
NewHigh(d, t) == Num(Max(today_close(t).val, Get(d, t, Num(0)).val))

\* a slip: the dict is built anew from the batch
UpdatedDict_Rebuilt(d, batch, single) ==
    LET hit == { t \in SeqRange(batch) : Updates(d, t, single) }
    IN  [t \in hit |-> NewHigh(d, t)]

\* stored_highs, a dict, after the loop over the batch
UpdatedDict(d, batch, single) ==
    LET hit == { t \in SeqRange(batch) : Updates(d, t, single) }
    IN  [t \in DOMAIN d \cup hit |-> IF t \in hit THEN NewHigh(d, t) ELSE d[t]]

\* the entries appended to new_highs by the loop over the batch
EmittedBy(batch, single, listed) ==
    LET hits == SelectSeq(batch, LAMBDA t : Emits(t, single, listed))
    IN  [n \in 1..Len(hits) |-> Event(hits[n])]

\* ------------------------------------------------------------------------
\* Ranking of the new highs
\* ------------------------------------------------------------------------

\* the sort key: x.get("beat_pct", 0), of an entry that has the key
BeatPct(e) == e.beat_pct

FracLeq(a, b) == a.num * b.den <= b.num * a.den
FracEq(a, b) == a.num * b.den = b.num * a.den

RECURSIVE SortByBeat(_, _)
SortByBeat(seq, keys) ==
    IF keys = {} THEN << >>
    ELSE LET k == CHOOSE x \in keys : \A y \in keys : FracLeq(y, x)
         IN  SelectSeq(seq, LAMBDA e : FracEq(BeatPct(e), k))
                 \o SortByBeat(seq, { y \in keys : ~FracEq(y, k) })

\* a slip: the list is cut without being sorted
Top10_Unsorted(seq) == Prefix(seq, TopLimit)

\* sorted(new_highs, key=lambda x: x.get("beat_pct", 0), reverse=True)[:10]
Top10(seq) ==
    Prefix(SortByBeat(seq, { BeatPct(seq[n]) : n \in 1..Len(seq) }), TopLimit)

\* ------------------------------------------------------------------------
\* The ETF and options stages
\* ------------------------------------------------------------------------

\* size of etf_list (ETFs are 1..NumEtfs, in the order of its keys)
NumEtfs == 14

Etfs == 1..NumEtfs

\* one ETF's data of the day, as batch_download returned it
EtfQuote(c, o, v) == [close |-> c, open |-> o, volume |-> v]

NoEtfQuote == EtfQuote(None, None, None)

\* the quotes of the first ETFs on a day the data source answers
EtfProbeQuotes ==
    << NoEtfQuote,
       EtfQuote(NaN, Num(100), Num(900)),       \* a NaN close, high volume
       EtfQuote(Num(0), Num(0), Num(900)),      \* a zero close, high volume
       EtfQuote(Num(90), Num(100), NaN) >>      \* -10%, a NaN volume

\* the quote every other ETF has on a day it has data: +10%
EtfFillerQuote == EtfQuote(Num(110), Num(100), Num(500))

NoEtfDay == [live |-> FALSE]

\* the days of the model: no ETF has data, or the first have their quotes
\* and all others the quote of the others
EtfDays == [live : BOOLEAN]

EtfQuoteOf(d, t) ==
    IF ~d.live THEN NoEtfQuote
    ELSE IF t <= Len(EtfProbeQuotes) THEN EtfProbeQuotes[t]
    ELSE EtfFillerQuote

\* if close is None or pd.isna(close) or close == 0: continue
EtfValidClose(c) == IsNum(c) /\ c.val # 0

\* the tickers of the list etfs, in the order they were appended
EtfList(d) ==
    SelectSeq([n \in 1..NumEtfs |-> n],
              LAMBDA t : EtfValidClose(EtfQuoteOf(d, t).close))

EtfChange(d) ==
    [t \in Etfs |-> ChangePct(EtfQuoteOf(d, t).close, EtfQuoteOf(d, t).open)]

\* "volume": volume if volume and not pd.isna(volume) else 0
EtfVolume(d) ==
    [t \in Etfs |->
        LET v == EtfQuoteOf(d, t).volume
        IN  IF IsNum(v) /\ v.val # 0 THEN v.val ELSE 0]

\* gainers = sorted(etfs, key=lambda x: x["change_pct"], reverse=True)[:10]
EtfGainers(d) == Prefix(SortedDesc(EtfList(d), EtfChange(d)), TopLimit)

\* losers = sorted(etfs, key=lambda x: x["change_pct"])[:10]
EtfLosers(d) == Prefix(SortedAsc(EtfList(d), EtfChange(d)), TopLimit)

\* most_active = sorted(etfs, key=lambda x: x["volume"], reverse=True)[:10]
EtfMostActive(d) == Prefix(SortedDesc(EtfList(d), EtfVolume(d)), TopLimit)

\* ------------------------------------------------------------------------
\* The batch fetcher: batch_download and safe_download
\* ------------------------------------------------------------------------

\* safe_download(tickers, period="1d", retries=2)
Retries == 2

\* batch_download(ticker_list, period="1d", batch_size=100)
BatchSize == 100

\* the longest ticker_list of a call of batch_download
MaxFetchLen == 201

\* the lengths of ticker_list (its tickers are 1..Len(ticker_list))
FetchLens == { 0, 1, 2, BatchSize, BatchSize + 1, MaxFetchLen }

\* for col in ["Close", "Volume", "High", "Low", "Open"]
Cols == { "Close", "Volume", "High", "Low", "Open" }

\* what the data source has of the first ticker: rows, rows of NaN, or
\* nothing (no column in a frame of several tickers, no row in a frame of
\* its own); it has rows of every other ticker
Feeds == { "rows", "nan", "nothing" }

FeedOf(f, t) == IF t = 1 THEN f ELSE "rows"

\* pd.DataFrame(), and the frame yf.download returns for a batch: the last
\* value of each ticker that has a column, the same in every column
EmptyFrame == [empty |-> TRUE, last |-> EmptyDict]

Frame(f, batch) ==
    LET present == { t \in SeqRange(batch) : FeedOf(f, t) # "nothing" }
    IN  [empty |-> present = {},
         last |-> [t \in present |->
                      IF FeedOf(f, t) = "rows" THEN Num(150) ELSE NaN]]

\* bookkeeping of the attempts on one batch: calls of yf.download, those
\* that raised, calls of time.sleep(5), calls that returned, and whether a
\* frame with rows was merged into all_data
NoTries ==
    [attempts |-> 0, raises |-> 0, sleeps |-> 0, returns |-> 0,
     merged |-> FALSE]

\* batch = ticker_list[i:i + batch_size]
FetchBatch(n) ==
    SubSeq(ticker_list, n + 1, Min(n + BatchSize, Len(ticker_list)))

\* range(0, len(ticker_list), batch_size)
FetchOffsets == { n \in 0..Len(ticker_list) - 1 : n % BatchSize = 0 }

\* no call of batch_download is under way
FetcherOff ==
    /\ bd = "off"
    /\ ticker_list = << >>
    /\ feed = "rows"
    /\ batch_i = 0
    /\ attempt = 0
    /\ data_frame = EmptyFrame
    /\ all_data = EmptyDict
    /\ tries = EmptyDict
    /\ pauses = 0

\* batch_download has been called and is at the head of its loop
FetcherCalled ==
    /\ bd = "loop"
    /\ ticker_list \in { [n \in 1..len |-> n] : len \in FetchLens }
    /\ feed \in Feeds
    /\ batch_i = 0
    /\ attempt = 0
    /\ data_frame = EmptyFrame
    /\ all_data = EmptyDict
    /\ tries = [n \in FetchOffsets |-> NoTries]
    /\ pauses = 0

\* a slip: range(retries + 1)
AttemptsLeft_OneMore(a) == a <= Retries

\* for attempt in range(retries)
AttemptsLeft(a) == a < Retries

\* the loop of batch_download takes the next batch and calls safe_download
TakeBatch ==
    /\ bd = "loop"
    /\ batch_i < Len(ticker_list)
    /\ attempt' = 0
    /\ bd' = "attempt"
    /\ UNCHANGED <<ticker_list, feed, batch_i, data_frame, all_data, tries,
                   pauses>>
    /\ UNCHANGED <<main, renderer, racing>>

\* yf.download raises: except Exception, print, time.sleep(5)
AttemptRaises ==
    /\ bd = "attempt"
    /\ AttemptsLeft(attempt)
    /\ tries' = [tries EXCEPT ![batch_i] =
                    [@ EXCEPT !.attempts = @ + 1, !.raises = @ + 1,
                              !.sleeps = @ + 1]]
    /\ attempt' = attempt + 1
    /\ UNCHANGED <<bd, ticker_list, feed, batch_i, data_frame, all_data,
                   pauses>>
    /\ UNCHANGED <<main, renderer, racing>>

\* yf.download returns a frame, with the rows the data source has or
\* with none, and safe_download returns it
AttemptReturns ==
    /\ bd = "attempt"
    /\ AttemptsLeft(attempt)
    /\ \E rows \in BOOLEAN :
           data_frame' = IF rows THEN Frame(feed, FetchBatch(batch_i))
                         ELSE EmptyFrame
    /\ tries' = [tries EXCEPT ![batch_i] =
                    [@ EXCEPT !.attempts = @ + 1, !.returns = @ + 1]]
    /\ bd' = "merge"
    /\ UNCHANGED <<ticker_list, feed, batch_i, attempt, all_data, pauses>>
    /\ UNCHANGED <<main, renderer, racing>>

\* the loop of safe_download has ended: return pd.DataFrame()
Exhausted ==
    /\ bd = "attempt"
    /\ ~AttemptsLeft(attempt)
    /\ data_frame' = EmptyFrame
    /\ bd' = "merge"
    /\ UNCHANGED <<ticker_list, feed, batch_i, attempt, all_data, tries, pauses>>
    /\ UNCHANGED <<main, renderer, racing>>

\* a slip: the placeholder None left out for a ticker without a column
Merged_Skipping(d, frame, batch) ==
    LET old(c) == Get(d, c, EmptyDict)
        got == SeqRange(batch) \cap DOMAIN frame.last
    IN  [c \in Cols |->
            [t \in DOMAIN old(c) \cup got |->
                IF t \in got THEN frame.last[t] ELSE old(c)[t]]]

\* all_data after the body of `if not data.empty`: a batch of one takes
\* data[col].iloc[-1]; a longer batch takes each ticker's last value, or
\* None for a ticker that has no column
Merged(d, frame, batch) ==
    LET val(t) == IF t \in DOMAIN frame.last THEN frame.last[t] ELSE None
        old(c) == Get(d, c, EmptyDict)
    IN  [c \in Cols |->
            [t \in DOMAIN old(c) \cup SeqRange(batch) |->
                IF t \in SeqRange(batch) THEN val(t) ELSE old(c)[t]]]

\* the rest of the loop body of batch_download: the frame is merged into
\* all_data unless it is empty, then time.sleep(2)
Merge ==
    /\ bd = "merge"
    /\ all_data' = IF data_frame.empty THEN all_data
                   ELSE Merged(all_data, data_frame, FetchBatch(batch_i))
    /\ tries' = [tries EXCEPT ![batch_i].merged = ~data_frame.empty]
    /\ pauses' = pauses + 1
    /\ batch_i' = batch_i + BatchSize
    /\ bd' = "loop"
    /\ UNCHANGED <<ticker_list, feed, attempt, data_frame>>
    /\ UNCHANGED <<main, renderer, racing>>

\* return all_data
ReturnData ==
    /\ bd = "loop"
    /\ batch_i >= Len(ticker_list)
    /\ bd' = "returned"
    /\ UNCHANGED <<ticker_list, feed, batch_i, attempt, data_frame, all_data,
                   tries, pauses>>
    /\ UNCHANGED <<main, renderer, racing>>

\* today_data.get("Close", {}).get(ticker, 0), as the tracker reads it
CloseOrZero(d, t) == Get(Get(d, "Close", EmptyDict), t, Num(0))

\* ------------------------------------------------------------------------
\* The page: generate_html
\* ------------------------------------------------------------------------

\* the longest list handed to generate_html
MaxRows == 3

\* the list arguments of generate_html, one for each table of the page
Tables ==
    { "gainers", "unusual_vol", "new_highs", "etf_gainers", "etf_losers",
      "etf_active", "opt_bullish", "opt_bearish", "opt_unusual" }

\* the lists a table may get: none, one item or MaxRows items (an item is
\* its ticker), the longest in descending order of the tickers
Lists == { << >>, <<1>>, [k \in 1..MaxRows |-> MaxRows + 1 - k] }

\* a piece of HTML is the sequence of its tr elements: "" is << >>
NoHtml == << >>

\* the default msg of empty_msg ("an error occurred while loading the
\* data") and the msg of the 52-week-high table ("no stock made a new
\* 52-week high today"), both Korean text in the code
DefaultMsg == "error while loading the data"
HighsMsg == "no new 52-week high today"

\* render_stock_rows, render_etf_rows, render_options_bullish_rows and
\* render_options_bearish_rows: for i, item in enumerate(items) a tr with
\* the cell rank = i + 1 and the ticker, joined
RankedRows(items) ==
    [k \in 1..Len(items) |->
        [kind |-> "row", rank |-> Num(k), ticker |-> items[k]]]

\* render_unusual_options_rows: for item in items a tr with the ticker
\* and no rank cell, joined
render_unusual_options_rows(items) ==
    [k \in 1..Len(items) |->
        [kind |-> "row", rank |-> None, ticker |-> items[k]]]

\* "Render all table rows"
RowsHtml(t, items) ==
    IF t = "opt_unusual" THEN render_unusual_options_rows(items)
    ELSE RankedRows(items)

\* def empty_msg(data, msg=...): if not data: return the tr with msg;
\* return ""
empty_msg(data, msg) ==
    IF data = << >> THEN << [kind |-> "placeholder", msg |-> msg] >>
    ELSE NoHtml

\* a slip: the msg argument left out for the table of the new highs
Msg_AllDefault(t) == DefaultMsg

\* the msg handed to empty_msg for the table
Msg(t) == IF t = "new_highs" THEN HighsMsg ELSE DefaultMsg

\* <tbody>{x_html or empty_msg(x)}</tbody>: a or b is b when a is ""
Tbody(t, items) ==
    LET x_html == RowsHtml(t, items)
    IN  IF x_html # NoHtml THEN x_html ELSE empty_msg(items, Msg(t))

\* no call of generate_html is looked at
RendererOff ==
    /\ rs = "off"
    /\ inputs = [t \in Tables |-> << >>]
    /\ body = [t \in Tables |-> NoHtml]

\* generate_html has been called
RendererCalled ==
    /\ rs = "called"
    /\ inputs \in [Tables -> Lists]
    /\ body = [t \in Tables |-> NoHtml]

\* generate_html builds the page and returns it
GenerateHtml ==
    /\ rs = "called"
    /\ body' = [t \in Tables |-> Tbody(t, inputs[t])]
    /\ rs' = "rendered"
    /\ UNCHANGED inputs
    /\ UNCHANGED <<main, fetcher, racing>>

\* ------------------------------------------------------------------------
\* Two runs at once
\* ------------------------------------------------------------------------

\* two processes that run main() on the same data directory
Procs == { 1, 2 }

\* a process that has not reached the tracker
NoRacer ==
    [pc |-> "start", stored_highs |-> JsonMap(EmptyDict), i |-> 0,
     loaded |-> FileAbsent, fetched |-> {}, doc |-> FileAbsent]

\* overlap: whether both had loaded the store when the first save began;
\* dumped: the processes that have saved, in the order of their saves;
\* first_doc: the document the first of them wrote
NoRace ==
    [overlap |-> "open", dumped |-> << >>, first_doc |-> FileAbsent]

\* no two runs are looked at
RacersOff ==
    /\ racers = [p \in Procs |-> NoRacer]
    /\ race = NoRace

\* ------------------------------------------------------------------------
\* The run
\* ------------------------------------------------------------------------

Quiet(m) == [quote |-> [p \in Probes |-> NoQuote], fillers |-> m]

\* steps: what the run has done so far, in order ("config", "index",
\* "today", "month", "load", "year", "save", "etf", "options", "render",
\* "html"); replay: the data source answers as it did in the last run
NoRun ==
    [status |-> "none", start_file |-> FileAbsent, saves |-> 0, fetched |-> {},
     failed |-> {}, doc |-> FileAbsent, steps |-> << >>, html |-> FALSE,
     replay |-> FALSE]

NoLast ==
    [valid |-> FALSE, market |-> Quiet(0), fetched |-> {},
     end_file |-> FileAbsent, new_highs |-> << >>]

NoHighs == JsonMap(EmptyDict)

\* how many of the other tickers are live is the same on every day of a
\* behaviour
Init ==
    /\ file \in InitFiles
    /\ market \in { Quiet(m) : m \in FillerCounts }
    /\ pc = "idle"
    /\ stored_highs = NoHighs
    /\ new_highs = << >>
    /\ check_tickers = << >>
    /\ i = 0
    /\ result = << >>
    /\ gainers = << >>
    /\ unusual_vol = << >>
    /\ etf_data = NoEtfDay
    /\ etf_gainers = << >>
    /\ etf_losers = << >>
    /\ etf_active = << >>
    /\ runs = 0
    /\ failures = 0
    /\ run = NoRun
    /\ last = NoLast
    /\ FetcherOff
    /\ RendererOff
    /\ RacersOff

\* main() is not running: a call of batch_download is looked at on its own
MainOff ==
    /\ file = FileAbsent
    /\ market = Quiet(0)
    /\ pc = "idle"
    /\ stored_highs = NoHighs
    /\ new_highs = << >>
    /\ check_tickers = << >>
    /\ i = 0
    /\ result = << >>
    /\ gainers = << >>
    /\ unusual_vol = << >>
    /\ etf_data = NoEtfDay
    /\ etf_gainers = << >>
    /\ etf_losers = << >>
    /\ etf_active = << >>
    /\ runs = 0
    /\ failures = 0
    /\ run = NoRun
    /\ last = NoLast

InitFetch == MainOff /\ FetcherCalled /\ RendererOff /\ RacersOff

\* main() starts and load_json returns the four ticker files
StartRun ==
    /\ pc = "idle"
    /\ runs < MaxRuns
    /\ pc' = "index"
    /\ runs' = runs + 1
    /\ run' = [NoRun EXCEPT !.status = "running", !.start_file = file,
                            !.steps = <<"config">>]
    /\ result' = << >>
    /\ last' = NoLast
    /\ UNCHANGED <<fetcher, renderer, racing>>
    /\ UNCHANGED <<file, market, tracker, ranked, later, failures>>

\* main() starts and load_json raises on one of the four ticker files:
\* nothing catches it and the process ends
ConfigRaises ==
    /\ pc = "idle"
    /\ runs < MaxRuns
    /\ runs' = runs + 1
    /\ run' = [NoRun EXCEPT !.status = "no_config", !.start_file = file,
                            !.steps = <<"config">>]
    /\ result' = << >>
    /\ last' = NoLast
    /\ UNCHANGED <<fetcher, renderer, racing>>
    /\ UNCHANGED <<file, market, pc, tracker, ranked, later, failures>>

\* get_index_data: each of the four requests returns rows, returns none or
\* raises (except Exception), and the function returns
IndexStage ==
    /\ pc = "index"
    /\ pc' = "today"
    /\ run' = [run EXCEPT !.steps = Append(@, "index")]
    /\ UNCHANGED <<fetcher, renderer, racing>>
    /\ UNCHANGED <<file, market, tracker, result, ranked, later, runs,
                   failures, last>>

\* get_stock_data, the downloads: the day's data by batch_download and
\* the 1-month volumes
TodayStage ==
    /\ pc = "today"
    /\ \E q \in [Probes -> ProbeQuotes] : market' = [market EXCEPT !.quote = q]
    /\ pc' = "stocks"
    /\ run' = [run EXCEPT !.steps = @ \o <<"today", "month">>]
    /\ UNCHANGED <<fetcher, renderer, racing>>
    /\ UNCHANGED <<file, tracker, result, ranked, later, runs, failures, last>>

\* get_stock_data, "Process results": the list stocks is built and ranked
RankStocks ==
    /\ pc = "stocks"
    /\ gainers' = Gainers
    /\ unusual_vol' = UnusualVol
    /\ pc' = "load"
    /\ UNCHANGED <<fetcher, renderer, racing>>
    /\ UNCHANGED <<file, market, tracker, result, later, runs, failures, run,
                   last>>

\* one more run, on a day on which the data source answers as it did in the
\* last run, up to the end of the downloads of get_stock_data
Rerun ==
    /\ pc = "idle"
    /\ run.status = "done"
    /\ runs = MaxRuns
    /\ market' = last.market
    /\ pc' = "stocks"
    /\ runs' = runs + 1
    /\ failures' = 0
    /\ run' = [NoRun EXCEPT !.status = "running", !.start_file = file,
                            !.steps = <<"config", "index", "today", "month">>,
                            !.replay = TRUE]
    /\ UNCHANGED <<fetcher, renderer, racing>>
    /\ UNCHANGED <<file, tracker, result, ranked, later, last>>

\* the store is loaded and the candidates are chosen
LoadStore ==
    /\ pc = "load"
    /\ ~OpenRaises(file)
    /\ stored_highs' = LoadHighs(file)
    /\ new_highs' = << >>
    /\ check_tickers' = Candidates
    /\ i' = 0
    /\ pc' = "batches"
    /\ run' = [run EXCEPT !.steps = Append(@, "load")]
    /\ UNCHANGED <<fetcher, renderer, racing>>
    /\ UNCHANGED <<file, market, result, ranked, later, runs, failures, last>>

\* open() raises an error the except clause does not name: it leaves
\* get_stock_data and main, and the process ends
LoadStoreRaises ==
    /\ pc = "load"
    /\ OpenRaises(file)
    /\ pc' = "idle"
    /\ run' = [run EXCEPT !.status = "aborted", !.steps = Append(@, "load")]
    /\ market' = Quiet(market.fillers)
    /\ gainers' = << >>
    /\ unusual_vol' = << >>
    /\ UNCHANGED <<fetcher, renderer, racing>>
    /\ UNCHANGED <<file, tracker, result, later, runs, failures, last>>

\* a slip: save_json indented into the loop body, so that it runs after
\* the first batch
LoopDone_FirstBatch(n, len) == n >= Min(len, HighBatchSize)

\* the loop over the batches has ended and save_json is the next statement
LoopDone(n, len) == n >= len

\* the 1y request for the batch at offset n may raise: within the budget
\* of failures, or where it did in the run that is repeated
MayFail(n) ==
    IF run.replay THEN n \notin last.fetched ELSE failures < MaxFetchFailures

\* the 1y request for the batch at offset n may return
MayReturn(n) == run.replay => n \in last.fetched

\* a slip: the try statement put around the loop, so that the first
\* request that raises ends the loop
FetchFails_EndsLoop ==
    /\ pc = "batches"
    /\ ~LoopDone(i, Len(check_tickers))
    /\ MayFail(i)
    /\ failures' = failures + 1
    /\ i' = Len(check_tickers)
    /\ run' = [run EXCEPT !.failed = @ \cup {i}, !.steps = Append(@, "year")]
    /\ UNCHANGED <<fetcher, renderer, racing>>
    /\ UNCHANGED <<file, market, pc, stored_highs, new_highs, check_tickers,
                   result, ranked, later, runs, last>>

\* one pass of the loop whose yf.download raises: except Exception
FetchFails ==
    /\ pc = "batches"
    /\ ~LoopDone(i, Len(check_tickers))
    /\ MayFail(i)
    /\ failures' = failures + 1
    /\ i' = i + HighBatchSize
    /\ run' = [run EXCEPT !.failed = @ \cup {i}, !.steps = Append(@, "year")]
    /\ UNCHANGED <<fetcher, renderer, racing>>
    /\ UNCHANGED <<file, market, pc, stored_highs, new_highs, check_tickers,
                   result, ranked, later, runs, last>>

\* one pass of the loop whose yf.download returns
EvalBatch ==
    /\ pc = "batches"
    /\ ~LoopDone(i, Len(check_tickers))
    /\ MayReturn(i)
    /\ LET batch == Batch(i)
           single == Len(batch) = 1
           \* stored_highs.get raises AttributeError on a value that is
           \* no dict, which ends the pass (except Exception)
           evaluated == HasHigh(batch) /\ stored_highs.kind = "map"
           listed == SeqRange(stocks)
       IN  /\ new_highs' =
                 IF evaluated
                 THEN new_highs \o EmittedBy(batch, single, listed)
                 ELSE new_highs
           /\ stored_highs' =
                 IF evaluated
                 THEN JsonMap(UpdatedDict(stored_highs.map, batch, single))
                 ELSE stored_highs
    /\ i' = i + HighBatchSize
    /\ run' = [run EXCEPT !.fetched = @ \cup {i}, !.steps = Append(@, "year")]
    /\ UNCHANGED <<fetcher, renderer, racing>>
    /\ UNCHANGED <<file, market, pc, check_tickers, result, ranked, later,
                   runs, failures, last>>

\* a slip: save_json called before the loop over the batches
SaveOpen_BeforeLoop ==
    /\ pc = "batches"
    /\ i = 0
    /\ file' = FileMalformed
    /\ pc' = "dump"
    /\ run' = [run EXCEPT !.saves = @ + 1, !.doc = Dump(stored_highs),
                          !.steps = Append(@, "save")]
    /\ UNCHANGED <<fetcher, renderer, racing>>
    /\ UNCHANGED <<market, stored_highs, new_highs, check_tickers, i, result,
                   ranked, later, runs, failures, last>>

\* save_json: open(..., "w") creates the file or cuts it to length zero
SaveOpen ==
    /\ pc = "batches"
    /\ LoopDone(i, Len(check_tickers))
    /\ file' = FileMalformed
    /\ pc' = "dump"
    /\ run' = [run EXCEPT !.saves = @ + 1, !.doc = Dump(stored_highs),
                          !.steps = Append(@, "save")]
    /\ UNCHANGED <<fetcher, renderer, racing>>
    /\ UNCHANGED <<market, stored_highs, new_highs, check_tickers, i, result,
                   ranked, later, runs, failures, last>>

\* save_json: json.dump writes the document and the file is closed
SaveDump ==
    /\ pc = "dump"
    /\ file' = Dump(stored_highs)
    /\ pc' = "saved"
    /\ UNCHANGED <<fetcher, renderer, racing>>
    /\ UNCHANGED <<market, stored_highs, new_highs, check_tickers, i, result,
                   ranked, later, runs, failures, run, last>>

\* get_stock_data returns the rankings and its locals are gone
Return ==
    /\ pc = "saved"
    /\ result' = Top10(new_highs)
    /\ pc' = "etf"
    /\ last' = [valid |-> TRUE, market |-> market, fetched |-> run.fetched,
                end_file |-> file, new_highs |-> new_highs]
    /\ market' = Quiet(market.fillers)
    /\ stored_highs' = NoHighs
    /\ new_highs' = << >>
    /\ check_tickers' = << >>
    /\ i' = 0
    /\ UNCHANGED <<fetcher, renderer, racing>>
    /\ UNCHANGED <<file, ranked, later, runs, failures, run>>

\* get_etf_data: the day's data of the ETFs is downloaded by
\* batch_download, the list etfs is built from it and ranked
EtfStage ==
    /\ pc = "etf"
    /\ \E d \in EtfDays :
           /\ etf_data' = d
           /\ etf_gainers' = EtfGainers(d)
           /\ etf_losers' = EtfLosers(d)
           /\ etf_active' = EtfMostActive(d)
    /\ pc' = "options"
    /\ run' = [run EXCEPT !.steps = Append(@, "etf")]
    /\ UNCHANGED <<fetcher, renderer, racing>>
    /\ UNCHANGED <<file, market, tracker, result, ranked, runs, failures,
                   last>>

\* get_options_data: whatever the requests for a ticker do (rows, no rows,
\* an exception), the loop goes on (continue, except Exception) and the
\* function returns its three lists, which the model leaves out
OptionsStage ==
    /\ pc = "options"
    /\ pc' = "write"
    /\ etf_data' = NoEtfDay
    /\ run' = [run EXCEPT !.steps = Append(@, "options")]
    /\ UNCHANGED <<fetcher, renderer, racing>>
    /\ UNCHANGED <<file, market, tracker, result, ranked, etf_gainers,
                   etf_losers, etf_active, runs, failures, last>>

\* generate_html, then index.html is written; main() returns and the
\* process ends
WriteHtml ==
    /\ pc = "write"
    /\ pc' = "idle"
    /\ run' = [run EXCEPT !.status = "done", !.html = TRUE,
                          !.steps = @ \o <<"render", "html">>]
    /\ gainers' = << >>
    /\ unusual_vol' = << >>
    /\ etf_data' = NoEtfDay
    /\ etf_gainers' = << >>
    /\ etf_losers' = << >>
    /\ etf_active' = << >>
    /\ UNCHANGED <<fetcher, renderer, racing>>
    /\ UNCHANGED <<file, market, tracker, result, runs, failures, last>>

\* the process is killed (a timeout of the job, a crash) and its memory is
\* gone
Kill ==
    /\ pc # "idle"
    /\ pc' = "idle"
    /\ run' = [run EXCEPT !.status = "killed", !.fetched = {}, !.failed = {}]
    /\ market' = Quiet(market.fillers)
    /\ stored_highs' = NoHighs
    /\ new_highs' = << >>
    /\ check_tickers' = << >>
    /\ i' = 0
    /\ gainers' = << >>
    /\ unusual_vol' = << >>
    /\ etf_data' = NoEtfDay
    /\ etf_gainers' = << >>
    /\ etf_losers' = << >>
    /\ etf_active' = << >>
    /\ result' = << >>
    /\ last' = NoLast
    /\ UNCHANGED <<fetcher, renderer, racing>>
    /\ UNCHANGED <<file, runs, failures>>

Next ==
    \/ StartRun
    \/ ConfigRaises
    \/ IndexStage
    \/ TodayStage
    \/ RankStocks
    \/ LoadStore
    \/ LoadStoreRaises
    \/ FetchFails
    \/ EvalBatch
    \/ SaveOpen
    \/ SaveDump
    \/ Return
    \/ EtfStage
    \/ OptionsStage
    \/ WriteHtml
    \/ Kill

Spec == Init /\ [][Next]_vars

NextRerun == Next \/ Rerun

SpecRerun == Init /\ [][NextRerun]_vars

NextFetch ==
    \/ TakeBatch
    \/ AttemptRaises
    \/ AttemptReturns
    \/ Exhausted
    \/ Merge
    \/ ReturnData

SpecFetch == InitFetch /\ [][NextFetch]_vars

\* a call of generate_html on its own
InitRender == MainOff /\ FetcherOff /\ RendererCalled /\ RacersOff

NextRender == GenerateHtml

SpecRender == InitRender /\ [][NextRender]_vars

\* ------------------------------------------------------------------------
\* Two runs at once: the tracker of get_stock_data in two processes
\* ------------------------------------------------------------------------

\* the stores the two runs may find
RaceFiles ==
    { FileAbsent,
      JsonMap([t \in {1} |-> Num(170)]),
      JsonMap([t \in {1, NumTickers} |-> Num(150)]) }

\* how many of the other tickers have data on the day of the two runs
RaceFillers == { 0, HighBatchSize }

\* both processes have downloaded the day's data, the same for both, and
\* chosen their candidates; neither has opened the store
InitRace ==
    /\ file \in RaceFiles
    /\ market \in [quote : [Probes -> ProbeQuotes], fillers : RaceFillers]
    /\ pc = "idle"
    /\ stored_highs = NoHighs
    /\ new_highs = << >>
    /\ check_tickers = Candidates
    /\ i = 0
    /\ result = << >>
    /\ gainers = << >>
    /\ unusual_vol = << >>
    /\ etf_data = NoEtfDay
    /\ etf_gainers = << >>
    /\ etf_losers = << >>
    /\ etf_active = << >>
    /\ runs = 0
    /\ failures = 0
    /\ run = NoRun
    /\ last = NoLast
    /\ FetcherOff
    /\ RendererOff
    /\ RacersOff

\* what the steps of the two processes leave alone
RaceUnchanged ==
    UNCHANGED <<market, pc, tracker, result, ranked, later, runs, failures,
                run, last, fetcher, renderer>>

\* process p loads the store: no lock is taken and nothing tells it of the
\* other process
RaceLoad(p) ==
    /\ racers[p].pc = "start"
    /\ ~OpenRaises(file)
    /\ racers' = [racers EXCEPT ![p].pc = "loop",
                                ![p].stored_highs = LoadHighs(file),
                                ![p].loaded = LoadHighs(file)]
    /\ UNCHANGED <<file, race>>
    /\ RaceUnchanged

\* one pass of p's loop whose yf.download raises
RaceFetchFails(p) ==
    /\ racers[p].pc = "loop"
    /\ ~LoopDone(racers[p].i, Len(check_tickers))
    /\ racers' = [racers EXCEPT ![p].i = @ + HighBatchSize]
    /\ UNCHANGED <<file, race>>
    /\ RaceUnchanged

\* one pass of p's loop whose yf.download returns
RaceEvalBatch(p) ==
    /\ racers[p].pc = "loop"
    /\ ~LoopDone(racers[p].i, Len(check_tickers))
    /\ LET batch == Batch(racers[p].i)
           d == racers[p].stored_highs
           evaluated == HasHigh(batch) /\ d.kind = "map"
       IN  racers' =
               [racers EXCEPT
                   ![p].stored_highs =
                       IF evaluated
                       THEN JsonMap(UpdatedDict(d.map, batch, Len(batch) = 1))
                       ELSE d,
                   ![p].fetched = @ \cup { racers[p].i },
                   ![p].i = @ + HighBatchSize]
    /\ UNCHANGED <<file, race>>
    /\ RaceUnchanged

\* a change of the code: the file is read again and merged into
\* stored_highs before it is written
SaveArg_Merged(p) ==
    LET mine == racers[p].stored_highs
        theirs == LoadHighs(file)
    IN  IF mine.kind = "map" /\ theirs.kind = "map"
        THEN JsonMap([t \in DOMAIN mine.map \cup DOMAIN theirs.map |->
                 IF t \notin DOMAIN theirs.map THEN mine.map[t]
                 ELSE IF t \notin DOMAIN mine.map THEN theirs.map[t]
                 ELSE IF IsNum(mine.map[t]) /\ IsNum(theirs.map[t])
                          /\ theirs.map[t].val > mine.map[t].val
                      THEN theirs.map[t]
                 ELSE mine.map[t]])
        ELSE mine

\* what p hands to save_json: its own stored_highs
SaveArg(p) == racers[p].stored_highs

\* p's save_json: open(..., "w") cuts the file to length zero
RaceSaveOpen(p) ==
    /\ racers[p].pc = "loop"
    /\ LoopDone(racers[p].i, Len(check_tickers))
    /\ racers' = [racers EXCEPT ![p].pc = "dump", ![p].doc = Dump(SaveArg(p))]
    /\ file' = FileMalformed
    /\ race' = [race EXCEPT !.overlap =
                    IF @ # "open" THEN @
                    ELSE IF \A q \in Procs : racers[q].pc # "start"
                         THEN "yes" ELSE "no"]
    /\ RaceUnchanged

\* p's save_json: json.dump writes the document and the file is closed
RaceSaveDump(p) ==
    /\ racers[p].pc = "dump"
    /\ racers' = [racers EXCEPT ![p].pc = "saved"]
    /\ file' = racers[p].doc
    /\ race' = [race EXCEPT !.dumped = Append(@, p),
                            !.first_doc = IF race.dumped = << >>
                                          THEN racers[p].doc ELSE @]
    /\ RaceUnchanged

NextRace ==
    \E p \in Procs :
        \/ RaceLoad(p)
        \/ RaceFetchFails(p)
        \/ RaceEvalBatch(p)
        \/ RaceSaveOpen(p)
        \/ RaceSaveDump(p)

SpecRace == InitRace /\ [][NextRace]_vars

\* ------------------------------------------------------------------------
\* Vocabulary of the properties
\* ------------------------------------------------------------------------

\* the tracker has evaluated every batch and written the store, and its
\* locals are still there
TrackerDone == pc = "saved"

\* the tracker has just returned: result is the list it returned and
\* last.new_highs the events it had emitted
TrackerReturned == pc = "etf" /\ last.valid

CandidateSet == SeqRange(check_tickers)

\* tickers with an entry in new_highs
EmittedTickers == { new_highs[k].ticker : k \in 1..Len(new_highs) }

\* the 1y download of the batch holding position n of check_tickers returned
FetchedAt(n) == ((n - 1) \div HighBatchSize) * HighBatchSize \in run.fetched

\* offset in check_tickers of the batch that holds position n
BatchOf(n) == ((n - 1) \div HighBatchSize) * HighBatchSize

\* the candidate at position n has a trailing one-year high in this run
HighPresent(n) == FetchedAt(n) /\ IsNum(yr_high(check_tickers[n]))

\* close >= 0.99 * trailing high, for a ticker that has both
InBand(t) == 100 * today_close(t).val >= 99 * yr_high(t).val

\* the mapping the run loaded
Loaded == LoadHighs(run.start_file)

\* a store entry, None when there is none (or the store is no mapping)
Entry(doc, t) == Get(doc.map, t, None)

\* a close that is missing, NaN or zero
NoClose(c) == c = None \/ c = NaN \/ c = Num(0)

\* valid snapshots whose change_pct is strictly greater than k
AboveCount(k) ==
    Cardinality({ u \in Tickers : ValidClose(today_close(u)) /\ change_pct(u) > k })

ValidCount == Cardinality({ u \in Tickers : ValidClose(today_close(u)) })

\* at least half of the day's valid snapshots have a greater change_pct
BottomHalf(t) ==
    ValidClose(today_close(t)) /\ 2 * AboveCount(change_pct(t)) >= ValidCount

\* ------------------------------------------------------------------------
\* Properties
\* ------------------------------------------------------------------------

\* C1: once a run has ended, every symbol that had a number in the store
\* when the run started has a number in the store that is at least as
\* great.
C1_NonDecreasing ==
    (pc = "idle" /\ run.status # "none") =>
        \A s \in DOMAIN run.start_file.map :
            IsNum(run.start_file.map[s]) =>
                /\ IsNum(Entry(file, s))
                /\ Entry(file, s).val >= run.start_file.map[s].val

\* the same of the runs that were not killed
C1_NonDecreasingUnlessKilled ==
    (pc = "idle" /\ run.status \in {"done", "aborted"}) =>
        \A s \in DOMAIN run.start_file.map :
            IsNum(run.start_file.map[s]) =>
                /\ IsNum(Entry(file, s))
                /\ Entry(file, s).val >= run.start_file.map[s].val

\* C2: when the tracker is done, a candidate has an entry in new_highs if
\* and only if it has a close and a trailing one-year high in this run and
\* close >= 0.99 * high.
C2_EventIffInBand ==
    TrackerDone =>
        \A n \in 1..Len(check_tickers) :
            LET t == check_tickers[n]
            IN  t \in EmittedTickers <=>
                    /\ ValidClose(today_close(t))
                    /\ HighPresent(n)
                    /\ InBand(t)

\* the same of the runs that loaded a mapping
C2_EventIffInBandOfMapping ==
    (TrackerDone /\ Loaded.kind = "map") => C2_EventIffInBand

\* C3: when the tracker is done, a candidate with a close whose trailing
\* one-year high is missing or NaN has no entry in new_highs, and its
\* store entry is the one that was loaded.
C3_NoHighNoChange ==
    TrackerDone =>
        \A n \in 1..Len(check_tickers) :
            LET t == check_tickers[n]
            IN  (ValidClose(today_close(t)) /\ IsNa(yr_high(t))) =>
                    /\ t \notin EmittedTickers
                    /\ Entry(stored_highs, t) = Entry(Loaded, t)

\* the same of the batches of several symbols
C3_NoHighNoChangeInLongBatch ==
    TrackerDone =>
        \A n \in 1..Len(check_tickers) :
            LET t == check_tickers[n]
                alone == n = Len(check_tickers) /\ n % HighBatchSize = 1
            IN  (ValidClose(today_close(t)) /\ IsNa(yr_high(t)) /\ ~alone) =>
                    /\ t \notin EmittedTickers
                    /\ Entry(stored_highs, t) = Entry(Loaded, t)

\* the value C4 names: max(stored value, or 0 if there is none, close)
C4_Expected(t) ==
    LET prev == Entry(Loaded, t)
    IN  Num(Max(IF IsNum(prev) THEN prev.val ELSE 0, today_close(t).val))

\* C4: when the tracker is done, the store entry of every candidate with
\* a close and a trailing one-year high is max(loaded value or 0, close),
\* with or without an event.
C4_StoreIsMaxOfClose ==
    TrackerDone =>
        \A n \in 1..Len(check_tickers) :
            LET t == check_tickers[n]
            IN  (ValidClose(today_close(t)) /\ HighPresent(n)) =>
                    Entry(stored_highs, t) = C4_Expected(t)

\* the same of the runs that loaded a mapping of numbers
C4_StoreIsMaxOfCloseOfNumbers ==
    (TrackerDone /\ Loaded.kind = "map"
        /\ \A t \in DOMAIN Loaded.map : IsNum(Loaded.map[t])) =>
        C4_StoreIsMaxOfClose

\* the run repeats the last run: the same data, the same requests answered,
\* and the store that run left
Repeats ==
    /\ TrackerDone
    /\ last.valid
    /\ market = last.market
    /\ run.fetched = last.fetched
    /\ run.start_file = last.end_file

\* C5: a run that repeats the last run on the store that run left emits
\* the same set of events and writes a store equal to the one it loaded.
C5_Idempotent ==
    Repeats =>
        /\ SeqRange(new_highs) = SeqRange(last.new_highs)
        /\ file = run.start_file

C5_Witness ==
    /\ Repeats
    /\ new_highs # << >>
    /\ file.kind = "map"
    /\ \E t \in DOMAIN file.map : file.map[t] = today_close(t)
    /\ Cardinality(run.fetched) < Cardinality({ n \in 0..Len(check_tickers) - 1 : n % HighBatchSize = 0 })

\* C6: a run calls save_json at most once; it has not called it, and the
\* file is as it was at the start of the run, as long as batches are left;
\* it has called it once when the tracker returns.
C6_SavedOnceAfterBatches ==
    /\ run.saves <= 1
    /\ pc \in {"index", "today", "stocks", "load", "batches"} =>
           (run.saves = 0 /\ file = run.start_file)
    /\ pc \in {"dump", "saved"} => (run.saves = 1 /\ i >= Len(check_tickers))
    /\ pc \in {"etf", "options", "write"} => run.saves = 1
    /\ (pc = "idle" /\ run.status = "done") => run.saves = 1

C6_Witness ==
    /\ TrackerDone
    /\ Len(check_tickers) > HighBatchSize
    /\ run.saves = 1
    /\ file # run.start_file

\* C7: after a run that was killed, the file holds the document it held
\* when the run started or the document the run was saving.
C7_AtomicSave ==
    (pc = "idle" /\ run.status = "killed") =>
        (file = run.start_file \/ (run.saves = 1 /\ file = run.doc))

\* content that is no mapping from symbols to numbers
BadStore(f) ==
    \/ f.kind \in {"absent", "unreadable", "malformed", "list"}
    \/ \E t \in DOMAIN f.map : ~IsNum(f.map[t])

\* C8: no run fails on loading the store; a run that found no mapping
\* from symbols to numbers writes a mapping that holds the close of every
\* candidate that had a close and a trailing high, and nothing but closes
\* of this run.
C8_BadStoreIsEmptyStore ==
    /\ run.status # "aborted"
    /\ (TrackerDone /\ BadStore(run.start_file)) =>
           /\ file.kind = "map"
           /\ \A t \in DOMAIN file.map : file.map[t] = today_close(t)
           /\ \A n \in 1..Len(check_tickers) :
                  HighPresent(n) => check_tickers[n] \in DOMAIN file.map

\* the same of the two cases the except clause names
C8_AbsentOrNoJsonIsEmptyStore ==
    (TrackerDone /\ run.start_file.kind \in {"absent", "malformed"}) =>
        /\ file.kind = "map"
        /\ \A t \in DOMAIN file.map : file.map[t] = today_close(t)
        /\ \A n \in 1..Len(check_tickers) :
               HighPresent(n) => check_tickers[n] \in DOMAIN file.map

\* C9: the candidates are at most 200, all with a valid snapshot, no one
\* twice, all valid snapshots when those are at most 200, and no valid
\* snapshot outside them has a greater change_pct than one of them.
C9_CandidatesAreTopPrefix ==
    (pc = "batches" /\ i = 0) =>
        /\ Len(check_tickers) <= CandidateLimit
        /\ Len(check_tickers) = Min(CandidateLimit, ValidCount)
        /\ Cardinality(CandidateSet) = Len(check_tickers)
        /\ \A t \in CandidateSet : ValidClose(today_close(t))
        /\ \A t \in Tickers \ CandidateSet :
               ValidClose(today_close(t)) =>
                   \A c \in CandidateSet : change_pct(t) <= change_pct(c)

C9_Witness ==
    /\ pc = "batches"
    /\ Len(check_tickers) = CandidateLimit
    /\ \E t \in Tickers \ CandidateSet :
           /\ ValidClose(today_close(t))
           /\ \E c \in CandidateSet : change_pct(t) < change_pct(c)

\* C10 as claimed: no symbol of the bottom half of the day's valid
\* snapshots has an entry in new_highs.
C10_BottomHalfSilent ==
    TrackerDone => \A t \in EmittedTickers : ~BottomHalf(t)

\* C10 as amended: a symbol with at least 200 valid snapshots of greater
\* change_pct has no entry in new_highs.
C10_BeyondLimitSilent ==
    TrackerDone =>
        \A k \in { change_pct(t) : t \in EmittedTickers } :
            AboveCount(k) < CandidateLimit

C10_Witness ==
    /\ TrackerDone
    /\ \E t \in Probes :
           /\ BottomHalf(t)
           /\ AboveCount(change_pct(t)) >= CandidateLimit
           /\ IsNum(yr_high(t))
           /\ InBand(t)
           /\ t \notin EmittedTickers
    /\ new_highs # << >>

\* C11: the list the tracker returned has at most 10 entries, in order of
\* non-increasing beat_pct; they are 10 (or all) of the events the run
\* emitted, and no emitted event outside the list has a beat_pct greater
\* than one inside it.
C11_TopTenByBeat ==
    TrackerReturned =>
        /\ Len(result) <= TopLimit
        /\ Len(result) = Min(TopLimit, Len(last.new_highs))
        /\ Cardinality(SeqRange(result)) = Len(result)
        /\ SeqRange(result) \subseteq SeqRange(last.new_highs)
        /\ \A k \in 1..Len(result) - 1 :
               FracLeq(BeatPct(result[k + 1]), BeatPct(result[k]))
        /\ \A e \in SeqRange(last.new_highs) \ SeqRange(result) :
               \A r \in SeqRange(result) : FracLeq(BeatPct(e), BeatPct(r))

C11_Witness ==
    /\ TrackerReturned
    /\ Len(last.new_highs) > TopLimit
    /\ Len(result) = TopLimit
    /\ ~FracLeq(BeatPct(result[1]), BeatPct(result[TopLimit]))
    /\ result[1].ticker \in Probes
    /\ last.new_highs[1].ticker \notin Probes

\* C12: when the tracker is done after 1y requests that raised or returned
\* nothing, the store has been written; every batch was requested; the
\* candidates of a batch whose request failed have no event and the store
\* entry that was loaded; the candidates of every other batch have the
\* event and the store entry their evaluation gives.
C12_FailedBatchSkipped ==
    TrackerDone =>
        LET listed == SeqRange(stocks)
            mapped == Loaded.kind = "map"
            emitted == EmittedTickers
            offsets == { BatchOf(n) : n \in 1..Len(check_tickers) }
            has_high == [b \in offsets |-> HasHigh(Batch(b))]
            alone == [b \in offsets |-> Len(Batch(b)) = 1]
        IN  /\ run.saves = 1
            /\ file = Dump(stored_highs)
            /\ \A n \in 1..Len(check_tickers) :
                   LET t == check_tickers[n]
                       b == BatchOf(n)
                   IN  IF b \in run.failed \/ ~has_high[b]
                       THEN /\ t \notin emitted
                            /\ Entry(stored_highs, t) = Entry(Loaded, t)
                       ELSE /\ b \in run.fetched
                            /\ t \in emitted <=>
                                   (mapped /\ Emits(t, alone[b], listed))
                            /\ Entry(stored_highs, t) =
                                   IF mapped /\ Updates(Loaded.map, t, alone[b])
                                   THEN NewHigh(Loaded.map, t)
                                   ELSE Entry(Loaded, t)

C12_Witness ==
    /\ TrackerDone
    /\ run.failed # {}
    /\ run.fetched # {}
    /\ new_highs # << >>
    /\ file # run.start_file
    /\ \E n \in 1..Len(check_tickers) :
           /\ BatchOf(n) \in run.failed
           /\ Emits(check_tickers[n], FALSE, SeqRange(stocks))
           /\ check_tickers[n] \notin EmittedTickers
    /\ \E n \in 1..Len(check_tickers) :
           /\ BatchOf(n) \in run.fetched
           /\ BatchOf(n) > SetMax(run.failed)
           /\ check_tickers[n] \in EmittedTickers

\* C13: when the tracker is done and the candidate list is empty, no event
\* was emitted, the list to return is empty and the file holds the value
\* that was loaded (the empty mapping when there was no file or no JSON).
C13_NoCandidatesNoChange ==
    (TrackerDone /\ check_tickers = << >>) =>
        /\ new_highs = << >>
        /\ Top10(new_highs) = << >>
        /\ file = Loaded

C13_Witness ==
    /\ TrackerDone
    /\ check_tickers = << >>
    /\ \A t \in Tickers : ~ValidClose(today_close(t))
    /\ run.saves = 1
    /\ file.kind = "map"
    /\ DOMAIN file.map # {}

\* C20: when the tracker is done, every symbol of the loaded store is in
\* the file, with the loaded value unless it is a candidate of the run,
\* and every symbol the file has gained is a candidate of the run.
C20_OnlyCandidatesChange ==
    TrackerDone =>
        /\ DOMAIN Loaded.map \subseteq DOMAIN file.map
        /\ DOMAIN file.map \ DOMAIN Loaded.map \subseteq CandidateSet
        /\ \A s \in DOMAIN Loaded.map \ CandidateSet :
               file.map[s] = Loaded.map[s]

C20_Witness ==
    /\ TrackerDone
    /\ file # Loaded
    /\ \E s \in DOMAIN Loaded.map \ CandidateSet :
           /\ ValidClose(today_close(s))
           /\ IsNum(yr_high(s))
           /\ today_close(s).val > Loaded.map[s].val
           /\ file.map[s] = Loaded.map[s]

\* C14: a symbol whose close is missing, NaN or zero is in none of the
\* rankings of the stocks, is no candidate, and has the store entry that
\* was loaded, in the tracker and in the file, when the tracker is done;
\* an ETF whose close is missing, NaN or zero is in none of the rankings
\* of the ETFs when get_etf_data has returned.
C14_NoCloseNoRanking ==
    /\ TrackerDone =>
           \A t \in Tickers :
               NoClose(today_close(t)) =>
                   /\ t \notin SeqRange(gainers)
                   /\ t \notin SeqRange(unusual_vol)
                   /\ t \notin EmittedTickers
                   /\ t \notin CandidateSet
                   /\ Entry(stored_highs, t) = Entry(Loaded, t)
                   /\ Entry(file, t) = Entry(Loaded, t)
    /\ pc = "options" =>
           \A e \in Etfs :
               NoClose(EtfQuoteOf(etf_data, e).close) =>
                   /\ e \notin SeqRange(etf_gainers)
                   /\ e \notin SeqRange(etf_losers)
                   /\ e \notin SeqRange(etf_active)

\* a stock with a zero close and three times its usual volume on a day
\* that has unusual volumes, gainers and new highs
C14_Witness ==
    /\ TrackerDone
    /\ \E t \in Probes :
           /\ today_close(t) = Num(0)
           /\ vol_ratio(t) >= UnusualRatio
           /\ \A u \in SeqRange(unusual_vol) : vol_ratio(u) < vol_ratio(t)
           /\ Entry(Loaded, t) # None
    /\ unusual_vol # << >>
    /\ gainers # << >>
    /\ new_highs # << >>

\* an ETF with a NaN close on a day the other ETFs are ranked
C14_WitnessEtf ==
    /\ pc = "options"
    /\ \E e \in Etfs : EtfQuoteOf(etf_data, e).close = NaN
    /\ \E e \in Etfs : EtfQuoteOf(etf_data, e).close = Num(0)
    /\ \E e \in Etfs : EtfQuoteOf(etf_data, e).close = None
    /\ Len(etf_gainers) = TopLimit
    /\ Len(etf_losers) = TopLimit
    /\ Len(etf_active) = TopLimit

\* the offset of the batch of batch_download that holds ticker t
FetchBatchOf(t) == ((t - 1) \div BatchSize) * BatchSize

\* the ticker has an entry in some column of all_data
HasEntry(t) == \E c \in DOMAIN all_data : t \in DOMAIN all_data[c]

\* C15: on each batch yf.download is called at most 2 times and not again
\* after a call that returned; time.sleep(5) follows every call that
\* raised; after 2 calls that raised safe_download hands back an empty
\* frame, nothing of the batch is in all_data, and batch_download has gone
\* on: when it returns it has tried every batch and paused after each.
C15_BoundedRetries ==
    /\ \A b \in DOMAIN tries :
           /\ tries[b].attempts <= Retries
           /\ tries[b].attempts = tries[b].raises + tries[b].returns
           /\ tries[b].returns <= 1
           /\ tries[b].sleeps = tries[b].raises
           /\ (tries[b].returns = 1 /\ b = batch_i) => bd = "merge"
           /\ (tries[b].raises = Retries /\ b = batch_i /\ bd = "merge") =>
                  data_frame = EmptyFrame
           /\ (tries[b].raises = Retries /\ b < batch_i) =>
                  /\ ~tries[b].merged
                  /\ \A t \in SeqRange(FetchBatch(b)) : ~HasEntry(t)
           /\ b < batch_i => tries[b].attempts >= 1
    /\ bd = "returned" =>
           /\ \A b \in FetchOffsets : b < batch_i
           /\ pauses = Cardinality(FetchOffsets)

C15_Witness ==
    /\ bd = "returned"
    /\ \E b, c \in FetchOffsets :
           /\ b < c
           /\ tries[b].raises = Retries
           /\ tries[c].raises = 1
           /\ tries[c].returns = 1
           /\ tries[c].merged
    /\ all_data # EmptyDict

\* the tracker skips the ticker: if close and not pd.isna(close)
Skipped(t) == ~TruthyClose(CloseOrZero(all_data, t))

\* C16 as claimed: when batch_download has returned, a ticker whose batch
\* got no frame or of which the data source has nothing has no entry in
\* all_data, and the tracker skips it.
C16_FailedIsAbsent ==
    bd = "returned" =>
        \A t \in SeqRange(ticker_list) :
            (tries[FetchBatchOf(t)].returns = 0 \/ FeedOf(feed, t) = "nothing") =>
                /\ ~HasEntry(t)
                /\ Skipped(t)

\* C16 as amended: a ticker of a batch of which no frame with rows came
\* has no entry; in a frame with rows a ticker without a column has the
\* entry None in every column and a ticker whose column holds no value the
\* entry NaN; the tracker skips all three.
C16_AbsentOrNone ==
    bd = "returned" =>
        \A t \in SeqRange(ticker_list) :
            LET b == FetchBatchOf(t)
            IN  /\ ~tries[b].merged => (~HasEntry(t) /\ Skipped(t))
                /\ (tries[b].merged /\ FeedOf(feed, t) = "nothing") =>
                       /\ HasEntry(t)
                       /\ \A c \in Cols : Get(Get(all_data, c, EmptyDict), t, None) = None
                       /\ Skipped(t)
                /\ (tries[b].merged /\ FeedOf(feed, t) = "nan") =>
                       /\ HasEntry(t)
                       /\ \A c \in Cols : Get(Get(all_data, c, EmptyDict), t, None) = NaN
                       /\ Skipped(t)

C16_Witness ==
    /\ bd = "returned"
    /\ \E t, u \in SeqRange(ticker_list) :
           /\ FetchBatchOf(t) # FetchBatchOf(u)
           /\ tries[FetchBatchOf(t)].merged
           /\ FeedOf(feed, t) = "nothing"
           /\ all_data["Close"][t] = None
           /\ tries[FetchBatchOf(u)].returns = 0
           /\ ~HasEntry(u)

\* C17 as claimed: a run whose ticker files did not load has fetched
\* nothing and written neither the store nor index.html; every other run
\* that ended without being killed has written index.html.
C17_OnlyConfigErrorsEndRun ==
    /\ run.status = "no_config" =>
           /\ run.steps = <<"config">>
           /\ run.saves = 0
           /\ file = run.start_file
           /\ ~run.html
    /\ (pc = "idle" /\ run.status \in {"done", "aborted"}) => run.html

\* the same of the runs that found a store file open() can read
C17_UnlessStoreUnreadable ==
    /\ run.status = "no_config" =>
           /\ run.steps = <<"config">>
           /\ run.saves = 0
           /\ file = run.start_file
           /\ ~run.html
    /\ (/\ pc = "idle"
        /\ run.status \in {"done", "aborted"}
        /\ run.start_file.kind # "unreadable") => run.html

\* the steps that download market data
FetchSteps == { "index", "today", "month", "year", "etf", "options" }

\* the places of a step in the steps of the run
Places(step) == { k \in 1..Len(run.steps) : run.steps[k] = step }

Before(step) ==
    CASE step = "config" -> {}
      [] step = "index" -> { "config" }
      [] step = "today" -> { "index" }
      [] step = "month" -> { "today" }
      [] step = "load" -> { "month" }
      [] step = "year" -> { "load", "year" }
      [] step = "save" -> { "load", "year" }
      [] step = "etf" -> { "save" }
      [] step = "options" -> { "etf" }
      [] step = "render" -> { "options" }
      [] step = "html" -> { "render" }

\* the number of batches of 50 the candidates make
NumBatches == (Len(check_tickers) + HighBatchSize - 1) \div HighBatchSize

C19_StoreOnlyOfCompletedRuns ==
    (pc = "idle" /\ run.status \in {"killed", "aborted"} /\ ~run.html) =>
        file = run.start_file

\* the same of the runs that ended before the call of save_json
C19_UntilSave ==
    (/\ pc = "idle"
     /\ run.status \in {"killed", "aborted"}
     /\ run.saves = 0) => file = run.start_file

\* the tr elements of a table that are data rows, and its placeholders
DataRows(t) == { k \in 1..Len(body[t]) : body[t][k].kind = "row" }
Placeholders(t) == { k \in 1..Len(body[t]) : body[t][k].kind = "placeholder" }

\* the table holds the placeholder row, with its message, if and only if
\* its list is empty
PlaceholderIffEmpty(t) ==
    /\ Placeholders(t) # {} <=> inputs[t] = << >>
    /\ inputs[t] = << >> =>
           /\ Len(body[t]) = 1
           /\ body[t][1].msg =
                  IF t = "new_highs" THEN HighsMsg ELSE DefaultMsg

\* the table holds one data row for each item, in the order of the list
RowPerItem(t) ==
    inputs[t] # << >> =>
        /\ Len(body[t]) = Len(inputs[t])
        /\ \A k \in 1..Len(inputs[t]) :
               /\ body[t][k].kind = "row"
               /\ body[t][k].ticker = inputs[t][k]

\* C21 as claimed: when generate_html has returned, each of the nine
\* tables holds the placeholder row if and only if its list is empty, with
\* the message of the new highs in their table and the default message in
\* the others, and else one data row for each item, in the order of the
\* list and with the ranks 1..n.
C21_PlaceholderOrRankedRows ==
    rs = "rendered" =>
        \A t \in Tables :
            /\ PlaceholderIffEmpty(t)
            /\ RowPerItem(t)
            /\ \A k \in DataRows(t) : body[t][k].rank = Num(k)

\* C21 as amended: the same, but the rows of the table of the unusual
\* options carry no rank.
C21_PlaceholderOrRows ==
    rs = "rendered" =>
        \A t \in Tables :
            /\ PlaceholderIffEmpty(t)
            /\ RowPerItem(t)
            /\ \A k \in DataRows(t) :
                   body[t][k].rank =
                       IF t = "opt_unusual" THEN None ELSE Num(k)

C21_Witness ==
    /\ rs = "rendered"
    /\ inputs["new_highs"] = << >>
    /\ inputs["gainers"] = << >>
    /\ Len(inputs["unusual_vol"]) = 1
    /\ Len(inputs["etf_active"]) = MaxRows
    /\ Len(inputs["opt_unusual"]) = MaxRows
    /\ body["new_highs"][1].msg = HighsMsg
    /\ body["gainers"][1].msg = DefaultMsg

\* the store the run found is absent or a mapping from symbols to numbers
GoodStore(f) ==
    \/ f.kind = "absent"
    \/ f.kind = "map" /\ \A t \in DOMAIN f.map : IsNum(f.map[t])

\* the candidates that had a trailing one-year high in this run
Evaluated == { check_tickers[n] : n \in { m \in 1..Len(check_tickers) : HighPresent(m) } }

\* the last batch holds one candidate, whose High column is all NaN
AloneWithoutHigh ==
    /\ Len(check_tickers) % HighBatchSize = 1
    /\ IsNa(yr_high(check_tickers[Len(check_tickers)]))
    /\ FetchedAt(Len(check_tickers))

\* C22 as claimed, for each run of a sequence of runs that do not overlap,
\* the store of each being the one the run before left: when the tracker
\* is done on a store that is absent or a mapping of numbers, the entry
\* written for a symbol is max(loaded value or 0, close) if the symbol was
\* a candidate with a trailing one-year high in this run, and the entry
\* that was loaded (or none) if not.
C22_HighWaterMark ==
    (TrackerDone /\ GoodStore(run.start_file)) =>
        LET evaluated == Evaluated
        IN  \A t \in Tickers :
                Entry(file, t) =
                    IF t \in evaluated THEN C4_Expected(t)
                    ELSE Entry(Loaded, t)

\* the same of the runs whose last batch is not one candidate without a
\* high
C22_UnlessAlone ==
    (TrackerDone /\ GoodStore(run.start_file) /\ ~AloneWithoutHigh) =>
        C22_HighWaterMark

\* the store entry of t and the events of t after the pass of the loop on
\* the batch, as EvalBatch makes it
EntryAfter(batch, t) ==
    IF HasHigh(batch) /\ stored_highs.kind = "map"
    THEN Get(UpdatedDict(stored_highs.map, batch, Len(batch) = 1), t, None)
    ELSE Entry(stored_highs, t)

EventsAfter(batch, t, listed) ==
    IF HasHigh(batch) /\ stored_highs.kind = "map"
    THEN SelectSeq(EmittedBy(batch, Len(batch) = 1, listed),
                   LAMBDA e : e.ticker = t)
    ELSE << >>

\* a candidate other than t, to share a batch with
Companion(t) == CHOOSE u \in SeqRange(check_tickers) : u # t

\* the batch of one and the batch of two give t the same events and the
\* same store entry
SameAloneAndPaired(t, listed) ==
    LET alone == <<t>>
        paired == <<t, Companion(t)>>
    IN  /\ EventsAfter(alone, t, listed) = EventsAfter(paired, t, listed)
        /\ EntryAfter(alone, t) = EntryAfter(paired, t)

\* C24 as claimed: with the store loaded and the day's data at hand, each
\* candidate gets the same events and the same store entry from a batch
\* of its own as from a batch it shares with another candidate.
C24_SingleEqualsMulti ==
    (pc = "batches" /\ i = 0 /\ Len(check_tickers) > 1) =>
        LET listed == SeqRange(stocks)
        IN  \A t \in SeqRange(check_tickers) : SameAloneAndPaired(t, listed)

\* the same of the candidates whose High column is not all NaN
C24_UnlessHighIsNaN ==
    (pc = "batches" /\ i = 0 /\ Len(check_tickers) > 1) =>
        LET listed == SeqRange(stocks)
        IN  \A t \in SeqRange(check_tickers) :
                yr_high(t) # NaN => SameAloneAndPaired(t, listed)

\* C25: when the tracker is done, every entry of new_highs carries the
\* close of its ticker and, as prev_high, the trailing one-year high of
\* this run; its beat_pct is (close - prev_high) / prev_high * 100 if
\* prev_high > 0 and 0 if not, and is at least -1 if prev_high > 0.
C25_EventCarriesTrailingHigh ==
    TrackerDone =>
        \A k \in 1..Len(new_highs) :
            LET e == new_highs[k]
                h == yr_high(e.ticker)
            IN  /\ IsNum(h)
                /\ e.prev_high = h.val
                /\ e.close = today_close(e.ticker).val
                /\ e.beat_pct.den > 0
                /\ e.prev_high > 0 =>
                       /\ e.beat_pct.num * e.prev_high =
                              (e.close - e.prev_high) * 100 * e.beat_pct.den
                       /\ e.beat_pct.num >= -e.beat_pct.den
                /\ e.prev_high <= 0 => e.beat_pct.num = 0

\* an entry of a ticker below its trailing high whose stored value is
\* another number than that high
C25_Witness ==
    /\ TrackerDone
    /\ \E k \in 1..Len(new_highs) :
           LET e == new_highs[k]
           IN  /\ e.beat_pct.num < 0
               /\ IsNum(Entry(Loaded, e.ticker))
               /\ Entry(Loaded, e.ticker).val # e.prev_high
    /\ \E k \in 1..Len(new_highs) : new_highs[k].beat_pct.num = 0

\* both processes have saved, and both had loaded when the first save began
RaceOver ==
    /\ race.overlap = "yes"
    /\ Len(race.dumped) = 2

\* the candidates whose entry process p has set
RaceUpdated(p) ==
    UNION { { t \in SeqRange(Batch(n)) :
                /\ HasHigh(Batch(n))
                /\ racers[p].loaded.kind = "map"
                /\ Updates(racers[p].loaded.map, t, Len(Batch(n)) = 1) } :
            n \in racers[p].fetched }

\* C23: when two runs had both loaded the store before either began to
\* save and both have saved, both had loaded the same store, and the file
\* holds the mapping of the run that saved second: for each symbol the
\* value that run computed from the store it loaded, or the entry of that
\* older store (or none), whatever the first save had written.
C23_SecondSaveOverwritesFirst ==
    RaceOver =>
        LET p == race.dumped[1]
            q == race.dumped[2]
            old == racers[q].loaded
            mine == RaceUpdated(q)
        IN  /\ racers[p].loaded = old
            /\ \A t \in Tickers :
                   Entry(file, t) =
                       IF t \in mine THEN NewHigh(old.map, t)
                       ELSE Entry(old, t)

\* after the race a symbol has a lower value than the first save wrote,
\* and another (or the same) symbol's entry has gone
C23_Witness ==
    /\ RaceOver
    /\ \E t \in Tickers :
           /\ IsNum(Entry(race.first_doc, t))
           /\ IsNum(Entry(file, t))
           /\ Entry(file, t).val < Entry(race.first_doc, t).val
    /\ \E t \in Tickers :
           /\ IsNum(Entry(race.first_doc, t))
           /\ Entry(file, t) = None

====
